---- MODULE Spec2Model ----
(***************************************************************************)
(* Role-scoped CRUD backend (Users, Projects) with a signal-driven audit   *)
(* trail.  The state is the three database tables (users, projects,        *)
(* audit_logs), the process-wide _original_state map of                    *)
(* projects/signals.py, the two auto-increment counters, the clock that    *)
(* stamps audit entries, the requests the worker threads are in the middle *)
(* of, and the response of the request handled last.                       *)
(***************************************************************************)
EXTENDS Integers, Sequences, FiniteSets, TLC

VARIABLES users, projects, auditLog, originalState, nextProjectId, nextUserId, lastOp,
          now, inflight

vars == <<users, projects, auditLog, originalState, nextProjectId, nextUserId, lastOp,
          now, inflight>>

\* ------------------------------------------------------------------ bounds

MaxProjects == 2
MaxLog == 3
MaxUsers == 4

\* ------------------------------------------------------------------ values

NoUser == 0
NoneVal == "None"
Missing == "<missing>"

SUPER_ADMIN == "SUPER_ADMIN"
COUNTRY_ADMIN == "COUNTRY_ADMIN"
COUNTRY_MEMBER == "COUNTRY_MEMBER"
Role == {SUPER_ADMIN, COUNTRY_ADMIN, COUNTRY_MEMBER}

ProjectStatus == {"draft", "active", "completed", "archived"}
AuditActionType == {"create", "update", "delete"}

Countries == {"USA", "Canada"}
Titles == {"t1", "t2"}
Descriptions == {"d1", "d2"}

TrackedFields == {"title", "description", "status", "country"}

EmptyMap == [x \in {} |-> x]

Put(f, k, v) == [x \in (DOMAIN f) \cup {k} |-> IF x = k THEN v ELSE f[x]]
Drop(f, k) == [x \in (DOMAIN f) \ {k} |-> f[x]]

\* ------------------------------------------------------------------ users/models.py

is_super_admin(u) == u.role = SUPER_ADMIN
is_country_admin(u) == u.role = COUNTRY_ADMIN
is_country_member(u) == u.role = COUNTRY_MEMBER

\* ------------------------------------------------------------------ projects/signals.py

\* pre_save receiver: the snapshot dictionary built from the stored row.
Snapshot(p) == [f \in TrackedFields |-> p[f]]

\* pre_save receiver: `if instance.pk:` then the stored row, when there is
\* one, is copied into _original_state[pk]; DoesNotExist is swallowed.
store_original_state(os, db, pk) ==
    IF pk # 0 /\ pk \in DOMAIN db THEN Put(os, pk, Snapshot(db[pk])) ELSE os

\* dict.get(field): None for a key the dictionary lacks.
OrigGet(original, f) == IF f \in DOMAIN original THEN original[f] ELSE NoneVal

\* Diff with the loop running over three field names, country left out.
Diff_no_country(original, inst) ==
    [f \in {g \in TrackedFields \ {"country"} : OrigGet(original, g) # inst[g]} |->
        [old |-> OrigGet(original, f), new |-> inst[f]]]

\* Diff with the loop leaving at the first changed field (a `break` after the
\* assignment): at most one field is recorded.
Diff_first_only(original, inst) ==
    LET changed == {g \in TrackedFields : OrigGet(original, g) # inst[g]}
    IN [f \in (IF changed = {} THEN {} ELSE {CHOOSE g \in changed : TRUE}) |->
           [old |-> OrigGet(original, f), new |-> inst[f]]]

\* The loop over the four field names of the update branch of post_save.
Diff(original, inst) ==
    [f \in {g \in TrackedFields : OrigGet(original, g) # inst[g]} |->
        [old |-> OrigGet(original, f), new |-> inst[f]]]

\* `instance.created_by or user`: the operands the wrong way round.
UserOr_creator_first(user, created_by) == IF created_by # NoUser THEN created_by ELSE user

\* `user or instance.created_by`
UserOr(user, created_by) == IF user # NoUser THEN user ELSE created_by

CreateChanges(us, inst) ==
    [title |-> inst.title, description |-> inst.description,
     status |-> inst.status, country |-> inst.country,
     created_by |-> IF inst.created_by # NoUser
                    THEN us[inst.created_by].username ELSE NoneVal]

DeleteChanges(inst) ==
    [title |-> inst.title, description |-> inst.description,
     status |-> inst.status, deleted |-> TRUE]

\* AuditLog.objects.create: timestamp is auto_now_add, the clock at the insert.
Entry(user, action, pk, changes) ==
    [user |-> user, action_type |-> action, model_name |-> "Project",
     object_id |-> pk, changes |-> changes, timestamp |-> now]

\* post_save receiver without the `if changes:` test of the update branch.
log_project_create_update_always(log, os, us, inst, pk, created, user) ==
    IF created
    THEN [log |-> Append(log, Entry(UserOr(user, inst.created_by), "create", pk,
                                    CreateChanges(us, inst))),
          os |-> os]
    ELSE LET original == IF pk \in DOMAIN os THEN os[pk] ELSE EmptyMap
         IN [log |-> Append(log, Entry(UserOr(user, inst.created_by), "update",
                                       pk, Diff(original, inst))),
             os |-> Drop(os, pk)]

\* post_save receiver whose cleanup empties the whole dictionary
\* (_original_state.clear()) instead of deleting the one key.
log_project_create_update_clear_all(log, os, us, inst, pk, created, user) ==
    IF created
    THEN [log |-> Append(log, Entry(UserOr(user, inst.created_by), "create", pk,
                                    CreateChanges(us, inst))),
          os |-> os]
    ELSE LET original == IF pk \in DOMAIN os THEN os[pk] ELSE EmptyMap
             changes == Diff(original, inst)
         IN [log |-> IF DOMAIN changes # {}
                     THEN Append(log, Entry(UserOr(user, inst.created_by), "update",
                                            pk, changes))
                     ELSE log,
             os |-> EmptyMap]

\* post_save receiver; the result is the pair (audit_logs, _original_state).
log_project_create_update(log, os, us, inst, pk, created, user) ==
    IF created
    THEN [log |-> Append(log, Entry(UserOr(user, inst.created_by), "create", pk,
                                    CreateChanges(us, inst))),
          os |-> os]
    ELSE LET original == IF pk \in DOMAIN os THEN os[pk] ELSE EmptyMap
             changes == Diff(original, inst)
         IN [log |-> IF DOMAIN changes # {}
                     THEN Append(log, Entry(UserOr(user, inst.created_by), "update",
                                            pk, changes))
                     ELSE log,
             os |-> Drop(os, pk)]

\* post_delete receiver with the `or instance.created_by` of post_save.
log_project_delete_fallback(log, inst, pk, user) ==
    Append(log, Entry(UserOr(user, inst.created_by), "delete", pk, DeleteChanges(inst)))

\* post_delete receiver.
log_project_delete(log, inst, pk, user) ==
    Append(log, Entry(user, "delete", pk, DeleteChanges(inst)))

\* ------------------------------------------------------------------ projects/models.py

\* Project.save of an instance without a primary key: pre_save (a no-op for
\* pk None), INSERT, post_save with created=True.
SaveNew(inst, user) ==
    LET pk == nextProjectId
        os1 == store_original_state(originalState, projects, 0)
        r == log_project_create_update(auditLog, os1, users, inst, pk, TRUE, user)
    IN /\ projects' = Put(projects, pk, inst)
       /\ nextProjectId' = pk + 1
       /\ auditLog' = r.log
       /\ originalState' = r.os

\* Project.save of an instance whose row exists: pre_save, UPDATE, post_save
\* with created=False.
SaveExisting(pk, inst, user) ==
    LET os1 == store_original_state(originalState, projects, pk)
        r == log_project_create_update(auditLog, os1, users, inst, pk, FALSE, user)
    IN /\ projects' = [projects EXCEPT ![pk] = inst]
       /\ nextProjectId' = nextProjectId
       /\ auditLog' = r.log
       /\ originalState' = r.os

\* Project.delete: DELETE, then post_delete with the in-memory instance.
DeleteRow(pk, user) ==
    /\ projects' = Drop(projects, pk)
    /\ auditLog' = log_project_delete(auditLog, projects[pk], pk, user)
    /\ UNCHANGED <<originalState, nextProjectId>>

Op(op, actor, id, status, result) ==
    [op |-> op, actor |-> actor, id |-> id, status |-> status, result |-> result]

\* ------------------------------------------------------------------ initial state

\* Threads of the one server process; they share the database and the
\* module-level _original_state.
Workers == {1, 2}

\* A worker that is between requests.
Idle == [pc |-> "idle"]

Init ==
    /\ users = (1 :> [role |-> SUPER_ADMIN, country |-> "USA", username |-> "root"]
             @@ 2 :> [role |-> COUNTRY_ADMIN, country |-> "USA", username |-> NoneVal]
             @@ 3 :> [role |-> COUNTRY_MEMBER, country |-> "Canada", username |-> "mem"])
    /\ projects = EmptyMap
    /\ auditLog = <<>>
    /\ originalState = EmptyMap
    /\ nextProjectId = 1
    /\ nextUserId = 4
    /\ lastOp = Op("init", NoUser, 0, "ok", {})
    /\ now = 0
    /\ inflight = [w \in Workers |-> Idle]

\* ------------------------------------------------------------------ ORM-level operations
\* Saves and deletes made on the model directly (the admin site of
\* projects/admin.py, management code, the test-suite): the performing
\* identity is whatever the caller put on the instance, possibly nothing.

UserRefs == (DOMAIN users) \cup {NoUser}

\* A User() instance that was never saved: it has no row in users.
UnsavedUser == -1

\* AuditLog.objects.create(user=...) raises ValueError for a related object
\* that is not stored (save() prohibited to prevent data loss).
AuditInsertRaises(user) == user # NoUser /\ user \notin DOMAIN users

\* Project(...).save(_current_user=cur) / Project.objects.create(...).  Outside
\* a transaction the INSERT is committed before post_save runs, so when the
\* receiver raises, the row stays and the caller gets the exception.
ModelCreate(title, description, status, country, created_by, cur) ==
    /\ UNCHANGED <<now, inflight>>
    /\ nextProjectId <= MaxProjects
    /\ Len(auditLog) < MaxLog
    /\ LET inst == [title |-> title, description |-> description, status |-> status,
                    country |-> country, created_by |-> created_by]
       IN IF AuditInsertRaises(UserOr(cur, created_by))
          THEN /\ projects' = Put(projects, nextProjectId, inst)
               /\ nextProjectId' = nextProjectId + 1
               /\ originalState' = store_original_state(originalState, projects, 0)
               /\ UNCHANGED auditLog
               /\ lastOp' = Op("model_create", cur, nextProjectId, "error", {})
          ELSE /\ SaveNew(inst, cur)
               /\ lastOp' = Op("model_create", cur, nextProjectId, "ok", {})
    /\ UNCHANGED <<users, nextUserId>>

\* project.<field> = value; project.save(_current_user=cur) on a loaded row.
\* When the receiver raises in AuditLog.objects.create, the UPDATE is already
\* committed and the cleanup of signals.py:70-71 is not reached.
ModelSave(pk, title, country, cur) ==
    /\ UNCHANGED <<now, inflight>>
    /\ pk \in DOMAIN projects
    /\ Len(auditLog) < MaxLog
    /\ LET inst == [projects[pk] EXCEPT !.title = title, !.country = country]
           os1 == store_original_state(originalState, projects, pk)
       IN IF DOMAIN Diff(os1[pk], inst) # {} /\ AuditInsertRaises(UserOr(cur, inst.created_by))
          THEN /\ projects' = [projects EXCEPT ![pk] = inst]
               /\ originalState' = os1
               /\ UNCHANGED <<auditLog, nextProjectId>>
               /\ lastOp' = Op("model_save", cur, pk, "error", {})
          ELSE /\ SaveExisting(pk, inst, cur)
               /\ lastOp' = Op("model_save", cur, pk, "ok", {})
    /\ UNCHANGED <<users, nextUserId>>

\* project._current_user = cur (or not set); project.delete().  Collector.delete
\* sends post_delete inside its transaction.atomic block, so a receiver that
\* raises rolls the DELETE back.
ModelDelete(pk, cur) ==
    /\ UNCHANGED <<now, inflight>>
    /\ pk \in DOMAIN projects
    /\ Len(auditLog) < MaxLog
    /\ IF AuditInsertRaises(cur)
       THEN /\ UNCHANGED <<projects, auditLog, originalState, nextProjectId>>
            /\ lastOp' = Op("model_delete", cur, pk, "error", {})
       ELSE /\ DeleteRow(pk, cur)
            /\ lastOp' = Op("model_delete", cur, pk, "ok", {})
    /\ UNCHANGED <<users, nextUserId>>

\* ------------------------------------------------------------------ projects/views.py, serializers.py

\* ProjectViewSet.get_queryset with no country filter on any role.
ProjectQuerysetOf_unfiltered(us, db, actor) == DOMAIN db

\* ProjectViewSet.get_queryset with the SuperAdmin branch missing.
ProjectQuerysetOf_no_super(us, db, actor) ==
    {p \in DOMAIN db : db[p].country = us[actor].country}

\* ProjectViewSet.get_queryset with a CountryMember narrowed to the projects
\* it created.
ProjectQuerysetOf_own_created(us, db, actor) ==
    IF is_super_admin(us[actor])
    THEN DOMAIN db
    ELSE {p \in DOMAIN db :
            /\ db[p].country = us[actor].country
            /\ is_country_member(us[actor]) => db[p].created_by = actor}

\* ProjectViewSet.get_queryset for an authenticated user, over the tables given.
ProjectQuerysetOf(us, db, actor) ==
    IF is_super_admin(us[actor])
    THEN DOMAIN db
    ELSE {p \in DOMAIN db : db[p].country = us[actor].country}

ProjectQueryset(actor) == ProjectQuerysetOf(users, projects, actor)

\* The writable fields had country not been listed in read_only_fields.
WritableFields_with_country == {"title", "description", "status", "country"}

\* The writable fields of ProjectSerializer: read_only_fields drops id,
\* created_by, country, created_at, updated_at from the input.
WritableFields == {"title", "description", "status"}

\* ChoiceField validation of status; the other writable fields accept any text.
ValidData(data) == data.status \in ProjectStatus \cup {Missing}

\* ModelSerializer.update: setattr for every validated attribute.
Updated(inst, data) ==
    [f \in DOMAIN inst |->
        IF f \in WritableFields /\ data[f] # Missing THEN data[f] ELSE inst[f]]

\* The detail routes with the object looked up in the whole table and the
\* country compared afterwards: 403 for a record of another country.
ProjectDetailStatus_lookup_first(us, db, actor, verb, pk, data) ==
    IF pk \notin DOMAIN db THEN "404"
    ELSE IF pk \notin ProjectQuerysetOf(us, db, actor) THEN "403"
    ELSE IF verb = "update" /\ ~ValidData(data) THEN "400"
    ELSE IF verb = "destroy" THEN "204" ELSE "200"

\* The detail routes with the country filter applied to the country the
\* request body carries, when it carries one, instead of the stored one.
ProjectDetailStatus_request_country(us, db, actor, verb, pk, data) ==
    LET claimed == [p \in DOMAIN db |->
                      IF data.country # Missing
                      THEN [db[p] EXCEPT !.country = data.country] ELSE db[p]]
    IN IF pk \notin ProjectQuerysetOf(us, claimed, actor) THEN "404"
       ELSE IF verb = "update" /\ ~ValidData(data) THEN "400"
       ELSE IF verb = "destroy" THEN "204" ELSE "200"

\* Status of GET / PATCH / DELETE /projects/{pk}/ : get_object() on the
\* filtered queryset raises Http404, then the serializer validates.
ProjectDetailStatus(us, db, actor, verb, pk, data) ==
    IF pk \notin ProjectQuerysetOf(us, db, actor) THEN "404"
    ELSE IF verb = "update" /\ ~ValidData(data) THEN "400"
    ELSE IF verb = "destroy" THEN "204" ELSE "200"

NoData == [title |-> Missing, description |-> Missing, status |-> Missing, country |-> Missing]

\* GET /projects/
ApiProjectList(actor) ==
    /\ UNCHANGED <<now, inflight>>
    /\ actor \in DOMAIN users
    /\ lastOp' = Op("project_list", actor, 0, "200", ProjectQueryset(actor))
    /\ UNCHANGED <<users, projects, auditLog, originalState, nextProjectId, nextUserId>>

\* GET /projects/{pk}/
ApiProjectRetrieve(actor, pk) ==
    /\ UNCHANGED <<now, inflight>>
    /\ actor \in DOMAIN users
    /\ lastOp' = Op("project_retrieve", actor, pk,
                    ProjectDetailStatus(users, projects, actor, "retrieve", pk, NoData), {})
    /\ UNCHANGED <<users, projects, auditLog, originalState, nextProjectId, nextUserId>>

\* POST /projects/ : is_valid, then perform_create hands _current_user to
\* serializer.save, which merges it into validated_data; ProjectSerializer.create
\* passes the whole dictionary to Project.objects.create, and the model
\* constructor rejects the keyword that is no field: TypeError before any row
\* is written.
ApiProjectCreate(actor, data) ==
    /\ UNCHANGED <<now, inflight>>
    /\ actor \in DOMAIN users
    /\ nextProjectId <= MaxProjects
    /\ Len(auditLog) < MaxLog
    /\ lastOp' = Op("project_create", actor, 0,
                    IF data.title = Missing \/ data.description = Missing
                       \/ ~ValidData(data)
                    THEN "400" ELSE "500", {})
    /\ UNCHANGED <<users, projects, auditLog, originalState, nextProjectId, nextUserId>>

\* PATCH /projects/{pk}/ : get_object, is_valid, perform_update.
ApiProjectUpdate(actor, pk, data) ==
    /\ UNCHANGED <<now, inflight>>
    /\ actor \in DOMAIN users
    /\ Len(auditLog) < MaxLog
    /\ LET status == ProjectDetailStatus(users, projects, actor, "update", pk, data)
       IN IF status = "200"
          THEN /\ SaveExisting(pk, Updated(projects[pk], data), actor)
               /\ lastOp' = Op("project_update", actor, pk, status, {data.country})
          ELSE /\ lastOp' = Op("project_update", actor, pk, status, {})
               /\ UNCHANGED <<projects, auditLog, originalState, nextProjectId>>
    /\ UNCHANGED <<users, nextUserId>>

\* DELETE /projects/{pk}/ : get_object, perform_destroy.
ApiProjectDestroy(actor, pk) ==
    /\ UNCHANGED <<now, inflight>>
    /\ actor \in DOMAIN users
    /\ Len(auditLog) < MaxLog
    /\ LET status == ProjectDetailStatus(users, projects, actor, "destroy", pk, NoData)
       IN IF status = "204"
          THEN /\ DeleteRow(pk, actor)
               /\ lastOp' = Op("project_destroy", actor, pk, status, {})
          ELSE /\ lastOp' = Op("project_destroy", actor, pk, status, {})
               /\ UNCHANGED <<projects, auditLog, originalState, nextProjectId>>
    /\ UNCHANGED <<users, nextUserId>>

\* ------------------------------------------------------------------ users/permissions.py

\* has_permission granting every authenticated user.
CanAlterUser_has_permission_any(u) == TRUE

\* IsCountryAdminOrSuperAdmin.has_permission, inherited by CanAlterUser.
CanAlterUser_has_permission(u) == is_super_admin(u) \/ is_country_admin(u)

\* CanAlterUser.has_object_permission
CanAlterUser_has_object_permission(u, obj) == is_super_admin(u) \/ u.country = obj.country

\* CanCreateUser.has_permission for a POST carrying `country`.
CanCreateUser_has_permission(u, country) ==
    IF ~(is_super_admin(u) \/ is_country_admin(u)) THEN FALSE
    ELSE IF is_super_admin(u) THEN TRUE
    ELSE country = u.country

\* ------------------------------------------------------------------ users/serializers.py

\* __can_create_user_type without the role comparison of line 54.
can_create_user_type_any_role(creator, role, country) ==
    IF is_super_admin(creator) THEN TRUE
    ELSE IF is_country_admin(creator) THEN country = creator.country
    ELSE FALSE

\* UserCreateSerializer.__can_create_user_type
can_create_user_type(creator, role, country) ==
    IF is_super_admin(creator) THEN TRUE
    ELSE IF is_country_admin(creator)
    THEN role = COUNTRY_MEMBER /\ country = creator.country
    ELSE FALSE

\* ------------------------------------------------------------------ users/views.py

\* get_queryset with the last branch filtering by country instead of id.
UserQuerysetOf_member_country(us, actor) ==
    IF is_super_admin(us[actor]) THEN DOMAIN us
    ELSE {u \in DOMAIN us : us[u].country = us[actor].country}

\* get_queryset with no country filter for a CountryAdmin.
UserQuerysetOf_admin_all(us, actor) ==
    IF is_super_admin(us[actor]) \/ is_country_admin(us[actor]) THEN DOMAIN us
    ELSE {u \in DOMAIN us : u = actor}

\* UserViewSet.get_queryset for an authenticated user, over the table given.
UserQuerysetOf(us, actor) ==
    IF is_super_admin(us[actor]) THEN DOMAIN us
    ELSE IF is_country_admin(us[actor])
    THEN {u \in DOMAIN us : us[u].country = us[actor].country}
    ELSE {u \in DOMAIN us : u = actor}

UserQueryset(actor) == UserQuerysetOf(users, actor)

\* Status of GET / PATCH / DELETE /users/{id}/ : get_permissions picks
\* CanAlterUser for update and destroy, checked before the lookup; get_object
\* raises Http404 outside the queryset and then checks the object permission.
UserDetailStatus(us, actor, verb, uid) ==
    IF verb \in {"update", "destroy"} /\ ~CanAlterUser_has_permission(us[actor])
    THEN "403"
    ELSE IF uid \notin UserQuerysetOf(us, actor) THEN "404"
    ELSE IF verb \in {"update", "destroy"}
            /\ ~CanAlterUser_has_object_permission(us[actor], us[uid])
    THEN "403"
    ELSE IF verb = "destroy" THEN "204" ELSE "200"

\* GET /users/
ApiUserList(actor) ==
    /\ UNCHANGED <<now, inflight>>
    /\ actor \in DOMAIN users
    /\ lastOp' = Op("user_list", actor, 0, "200", UserQueryset(actor))
    /\ UNCHANGED <<users, projects, auditLog, originalState, nextProjectId, nextUserId>>

\* GET /users/{id}/
ApiUserRetrieve(actor, uid) ==
    /\ UNCHANGED <<now, inflight>>
    /\ actor \in DOMAIN users
    /\ lastOp' = Op("user_retrieve", actor, uid,
                    UserDetailStatus(users, actor, "retrieve", uid), {})
    /\ UNCHANGED <<users, projects, auditLog, originalState, nextProjectId, nextUserId>>

\* POST /users/ : CanCreateUser, the field validation (country is required),
\* UserCreateSerializer.validate, create_user.  `role` may be left out of the
\* body; attrs.get("role") is then None and the model default applies.
ApiUserCreate(actor, role, country) ==
    /\ UNCHANGED <<now, inflight>>
    /\ actor \in DOMAIN users
    /\ nextUserId <= MaxUsers
    /\ IF ~CanCreateUser_has_permission(users[actor], country)
       THEN /\ lastOp' = Op("user_create", actor, 0, "403", [role |-> role, country |-> country])
            /\ UNCHANGED <<users, nextUserId>>
       ELSE IF country = Missing \/ ~can_create_user_type(users[actor], role, country)
       THEN /\ lastOp' = Op("user_create", actor, 0, "400", [role |-> role, country |-> country])
            /\ UNCHANGED <<users, nextUserId>>
       ELSE /\ users' = Put(users, nextUserId,
                            [role |-> IF role = Missing THEN COUNTRY_MEMBER ELSE role,
                             country |-> country, username |-> NoneVal])
            /\ nextUserId' = nextUserId + 1
            /\ lastOp' = Op("user_create", actor, nextUserId, "201",
                            [role |-> role, country |-> country])
    /\ UNCHANGED <<projects, auditLog, originalState, nextProjectId>>

\* PATCH /users/{id}/ with UserUpdateSerializer (email, country, is_active).
ApiUserUpdate(actor, uid, country) ==
    /\ UNCHANGED <<now, inflight>>
    /\ actor \in DOMAIN users
    /\ LET status == UserDetailStatus(users, actor, "update", uid)
       IN /\ lastOp' = Op("user_update", actor, uid, status, {})
          /\ users' = IF status = "200" /\ country # Missing
                      THEN [users EXCEPT ![uid].country = country]
                      ELSE users
    /\ UNCHANGED <<projects, auditLog, originalState, nextProjectId, nextUserId>>

\* on_delete=CASCADE in place of SET_NULL: the creator's projects go with it.
SetNullCreatedBy_cascade(db, uid) ==
    [p \in {q \in DOMAIN db : db[q].created_by # uid} |-> db[p]]

\* on_delete=SET_NULL of Project.created_by: an UPDATE, no save signal.
SetNullCreatedBy(db, uid) ==
    [p \in DOMAIN db |->
        IF db[p].created_by = uid THEN [db[p] EXCEPT !.created_by = NoUser] ELSE db[p]]

\* on_delete=SET_NULL of AuditLog.user.
SetNullAuditUser(log, uid) ==
    [i \in DOMAIN log |->
        IF log[i].user = uid THEN [log[i] EXCEPT !.user = NoUser] ELSE log[i]]

\* DELETE /users/{id}/ : the row goes, and the collector nulls the foreign
\* keys that point at it.
ApiUserDestroy(actor, uid) ==
    /\ UNCHANGED <<now, inflight>>
    /\ actor \in DOMAIN users
    /\ LET status == UserDetailStatus(users, actor, "destroy", uid)
       IN /\ lastOp' = Op("user_destroy", actor, uid, status, {})
          /\ IF status = "204"
             THEN /\ users' = Drop(users, uid)
                  /\ projects' = SetNullCreatedBy(projects, uid)
                  /\ auditLog' = SetNullAuditUser(auditLog, uid)
             ELSE UNCHANGED <<users, projects, auditLog>>
    /\ UNCHANGED <<originalState, nextProjectId, nextUserId>>

\* ------------------------------------------------------------------ specifications

ProjectIds == 1..MaxProjects
UserIds == 1..MaxUsers

\* Request bodies: each writable field absent or present, always with a
\* country (which the serializer is expected to ignore), and one body whose
\* status is outside the choices.
ProjectData ==
    [title : {"t2", Missing}, description : {"d2", Missing},
     status : {"active", Missing}, country : {"Canada"}]
    \cup {[NoData EXCEPT !.status = "bogus"]}

\* Identities the ORM-level callers attach: a creator, a performer, or none.
CreatedByInputs == {NoUser, 3}
CurrentUserInputs == {NoUser, 2}

ModelOps ==
    \/ \E c \in Countries, cb \in CreatedByInputs \cap UserRefs,
          cur \in CurrentUserInputs \cap UserRefs :
          ModelCreate("t1", "d1", "draft", c, cb, cur)
    \/ \E pk \in ProjectIds, t \in Titles, c \in Countries,
          cur \in CurrentUserInputs \cap UserRefs : ModelSave(pk, t, c, cur)
    \/ \E pk \in ProjectIds, cur \in CurrentUserInputs \cap UserRefs :
          ModelDelete(pk, cur)

ProjectWrites ==
    \/ \E a \in DOMAIN users, data \in ProjectData : ApiProjectCreate(a, data)
    \/ \E a \in DOMAIN users, pk \in ProjectIds, data \in ProjectData :
          ApiProjectUpdate(a, pk, data)
    \/ \E a \in DOMAIN users, pk \in ProjectIds : ApiProjectDestroy(a, pk)

\* Projects and their audit trail, the users as seeded.
Next == ModelOps \/ ProjectWrites

Spec == Init /\ [][Next]_vars

\* Reads and detail requests on projects and users against a small
\* population: the seeded member creates the projects through the ORM while
\* the account exists, and user rows change through the API.
Populate ==
    \E c \in Countries, cb \in CreatedByInputs \cap UserRefs :
       /\ cb = NoUser => 3 \notin DOMAIN users
       /\ ModelCreate("t1", "d1", "draft", c, cb, cb)

ProjectReads ==
    \/ \E a \in DOMAIN users : ApiProjectList(a)
    \/ \E a \in DOMAIN users, pk \in ProjectIds : ApiProjectRetrieve(a, pk)

ProjectDetailWrites ==
    \/ \E a \in DOMAIN users, pk \in ProjectIds :
          ApiProjectUpdate(a, pk, [NoData EXCEPT !.title = "t2"])
    \/ \E a \in DOMAIN users, pk \in ProjectIds : ApiProjectDestroy(a, pk)

UserDetailRequests ==
    \/ \E a \in DOMAIN users, u \in UserIds : ApiUserRetrieve(a, u)
    \/ \E a \in DOMAIN users, u \in UserIds, c \in Countries :
          ApiUserUpdate(a, u, c)
    \/ \E a \in DOMAIN users, u \in UserIds : ApiUserDestroy(a, u)

NextAccess == Populate \/ ProjectReads \/ ProjectDetailWrites \/ UserDetailRequests

SpecAccess == Init /\ [][NextAccess]_vars

\* ------------------------------------------------------------------ properties

Last(log) == log[Len(log)]

\* The step appended exactly one entry and touched no earlier one.
AppendedOne ==
    /\ Len(auditLog') = Len(auditLog) + 1
    /\ SubSeq(auditLog', 1, Len(auditLog)) = auditLog

CommittedCreate(op) ==
    (op.op = "model_create" /\ op.status = "ok") \/ (op.op = "project_create" /\ op.status = "201")
CommittedUpdate(op) ==
    (op.op = "model_save" /\ op.status = "ok") \/ (op.op = "project_update" /\ op.status = "200")
CommittedDelete(op) ==
    (op.op = "model_delete" /\ op.status = "ok") \/ (op.op = "project_destroy" /\ op.status = "204")

ChangesTracked(before, after) == \E f \in TrackedFields : before[f] # after[f]

\* C1: every committed create, every committed update that changes a tracked
\* field and every committed delete appends exactly one audit entry with the
\* matching action type and the project's id; an update that changes no
\* tracked field appends none.
C1_AuditCompleteness ==
    [][LET op == lastOp'
           pk == op.id
       IN /\ CommittedCreate(op) =>
                /\ pk \notin DOMAIN projects /\ pk \in DOMAIN projects'
                /\ AppendedOne
                /\ Last(auditLog').action_type = "create"
                /\ Last(auditLog').object_id = pk
          /\ CommittedUpdate(op) =>
                IF ChangesTracked(projects[pk], projects'[pk])
                THEN /\ AppendedOne
                     /\ Last(auditLog').action_type = "update"
                     /\ Last(auditLog').object_id = pk
                ELSE auditLog' = auditLog
          /\ CommittedDelete(op) =>
                /\ pk \in DOMAIN projects /\ pk \notin DOMAIN projects'
                /\ AppendedOne
                /\ Last(auditLog').action_type = "delete"
                /\ Last(auditLog').object_id = pk]_vars

\* Two changing updates of one project have left two separate Update entries.
C1_Witness ==
    /\ Len(auditLog) = 3
    /\ CommittedUpdate(lastOp)
    /\ auditLog[2].action_type = "update" /\ auditLog[3].action_type = "update"
    /\ auditLog[2].object_id = lastOp.id /\ auditLog[3].object_id = lastOp.id

\* The changes of the Update entry a step wrote, or the empty mapping.
WrittenChanges ==
    IF Len(auditLog') = Len(auditLog) + 1 THEN Last(auditLog').changes ELSE EmptyMap

\* Overwriting `before` with the new values of a diff.
ApplyChanges(before, changes) ==
    [f \in DOMAIN before |-> IF f \in DOMAIN changes THEN changes[f].new ELSE before[f]]

\* C2: an Update entry's changes contain a tracked field iff its value before
\* the update differs from its value after it, with old = before and
\* new = after; the diff is empty iff nothing tracked changed, and applying
\* its new values to the before-state gives the after-state.
C2_DiffLaw ==
    [][CommittedUpdate(lastOp') =>
          LET pk == lastOp'.id
              before == projects[pk]
              after == projects'[pk]
              changes == WrittenChanges
          IN /\ DOMAIN changes \subseteq TrackedFields
             /\ \A f \in TrackedFields :
                   /\ (f \in DOMAIN changes) <=> (before[f] # after[f])
                   /\ f \in DOMAIN changes =>
                         changes[f] = [old |-> before[f], new |-> after[f]]
             /\ (DOMAIN changes = {}) <=> (Snapshot(before) = Snapshot(after))
             /\ ApplyChanges(before, changes) = after]_vars

\* An update changed two tracked fields at once, country among them.
C2_Witness ==
    /\ CommittedUpdate(lastOp)
    /\ Len(auditLog) > 0
    /\ Last(auditLog).action_type = "update"
    /\ DOMAIN Last(auditLog).changes = {"title", "country"}

\* C6: the Delete entry's changes are the pre-delete snapshot of every tracked
\* field (title, description, status, country) plus deleted = true.
C6_DeleteSnapshot ==
    [][CommittedDelete(lastOp') =>
          LET before == projects[lastOp'.id]
              changes == Last(auditLog').changes
          IN /\ Last(auditLog').action_type = "delete"
             /\ DOMAIN changes = TrackedFields \cup {"deleted"}
             /\ \A f \in TrackedFields : changes[f] = before[f]
             /\ changes.deleted = TRUE]_vars

Mutating(op) == CommittedCreate(op) \/ CommittedUpdate(op) \/ CommittedDelete(op)

\* C7: when the performing identity is available, the entry a create, update
\* or delete writes names that identity as its actor.
C7_ActorIsPerformer ==
    [][(Mutating(lastOp') /\ lastOp'.actor # NoUser /\ Len(auditLog') > Len(auditLog)) =>
          Last(auditLog').user = lastOp'.actor]_vars

\* A delete by somebody other than the creator is attributed to the performer.
C7_Witness ==
    /\ CommittedDelete(lastOp)
    /\ Len(auditLog) >= 2
    /\ auditLog[1].action_type = "create" /\ auditLog[1].object_id = lastOp.id
    /\ auditLog[1].changes.created_by = "mem"
    /\ lastOp.actor \in {1, 2}
    /\ Last(auditLog).user = lastOp.actor

\* The creator of the project the step wrote or removed.
CreatorAtStep(pk) ==
    IF pk \in DOMAIN projects' THEN projects'[pk].created_by ELSE projects[pk].created_by

\* C8 as stated: without a performing identity the Create entry falls back to
\* createdBy, and an Update or Delete entry records a null actor.
C8_FallbackCreateOnly ==
    [][(Mutating(lastOp') /\ lastOp'.actor = NoUser /\ Len(auditLog') > Len(auditLog)) =>
          Last(auditLog').user =
              IF CommittedCreate(lastOp') THEN CreatorAtStep(lastOp'.id) ELSE NoUser]_vars

\* C8 as the code has it: the fallback to createdBy is applied on the create
\* and the update path; only the Delete entry records a null actor.
C8_FallbackCreateUpdate ==
    [][(Mutating(lastOp') /\ lastOp'.actor = NoUser /\ Len(auditLog') > Len(auditLog)) =>
          Last(auditLog').user =
              IF CommittedDelete(lastOp') THEN NoUser ELSE CreatorAtStep(lastOp'.id)]_vars

\* An update without a performing identity was attributed to the creator.
C8_Witness ==
    /\ lastOp.op = "model_save" /\ lastOp.actor = NoUser
    /\ Len(auditLog) >= 2
    /\ Last(auditLog).action_type = "update"
    /\ Last(auditLog).object_id = lastOp.id
    /\ lastOp.id \in DOMAIN projects
    /\ projects[lastOp.id].created_by # NoUser
    /\ Last(auditLog).user = projects[lastOp.id].created_by

\* C9: no update request changes a project's country, whatever country the
\* caller supplies.
C9_CountryImmutable ==
    [][lastOp'.op = "project_update" =>
          /\ DOMAIN projects' = DOMAIN projects
          /\ \A pk \in DOMAIN projects : projects'[pk].country = projects[pk].country]_vars

\* An accepted update carried another country than the project's and changed
\* the title only.
C9_Witness ==
    /\ lastOp.op = "project_update" /\ lastOp.status = "200"
    /\ lastOp.result = {"Canada"}
    /\ projects[lastOp.id].country = "USA"
    /\ Len(auditLog) > 0
    /\ Last(auditLog).action_type = "update"
    /\ Last(auditLog).object_id = lastOp.id

\* C3: listing projects returns all of them to a SuperAdmin and exactly those
\* of the identity's own country to a CountryAdmin or CountryMember.
C3_ListVisibility ==
    lastOp.op = "project_list" =>
        LET u == users[lastOp.actor]
        IN /\ u.role = SUPER_ADMIN => lastOp.result = DOMAIN projects
           /\ u.role \in {COUNTRY_ADMIN, COUNTRY_MEMBER} =>
                 lastOp.result = {p \in DOMAIN projects : projects[p].country = u.country}

\* A country-scoped identity listed two projects and was shown one of them.
C3_Witness ==
    /\ lastOp.op = "project_list"
    /\ users[lastOp.actor].role \in {COUNTRY_ADMIN, COUNTRY_MEMBER}
    /\ Cardinality(DOMAIN projects) = 2
    /\ Cardinality(lastOp.result) = 1

\* The request of the step is an update or delete by a CountryAdmin or
\* CountryMember of a stored project of another country.
CrossCountryWrite(op) ==
    /\ op.op \in {"project_update", "project_destroy"}
    /\ op.id \in DOMAIN projects
    /\ users[op.actor].role \in {COUNTRY_ADMIN, COUNTRY_MEMBER}
    /\ projects[op.id].country # users[op.actor].country

\* C4: such a request returns NotFound, leaves the project as it was and
\* appends no audit entry.
C4_CrossCountryNotFound ==
    [][CrossCountryWrite(lastOp') =>
          /\ lastOp'.status = "404"
          /\ projects' = projects
          /\ auditLog' = auditLog]_vars

\* A CountryAdmin's update of a project of another country came back 404.
C4_Witness ==
    /\ lastOp.op = "project_update" /\ lastOp.status = "404"
    /\ lastOp.id \in DOMAIN projects
    /\ users[lastOp.actor].role = COUNTRY_ADMIN
    /\ projects[lastOp.id].country # users[lastOp.actor].country

DetailVerbs == {"retrieve", "update", "destroy"}

\* C5: for a non-SuperAdmin the status of a read, update or delete addressed
\* to a stored record outside the actor's visibility is the status the same
\* request gets when that record is not stored at all.
C5_HiddenLikeAbsent ==
    \A a \in DOMAIN users :
        users[a].role # SUPER_ADMIN =>
            /\ \A pk \in (DOMAIN projects) \ ProjectQuerysetOf(users, projects, a) :
                  \A verb \in DetailVerbs, data \in ProjectData :
                     ProjectDetailStatus(users, projects, a, verb, pk, data)
                        = ProjectDetailStatus(users, Drop(projects, pk), a, verb, pk, data)
            /\ \A uid \in (DOMAIN users) \ UserQuerysetOf(users, a) :
                  \A verb \in DetailVerbs :
                     UserDetailStatus(users, a, verb, uid)
                        = UserDetailStatus(Drop(users, uid), a, verb, uid)

\* A CountryAdmin asked to delete a stored user of another country, with a
\* project of another country stored as well, and was told 404.
C5_Witness ==
    /\ lastOp.op = "user_destroy" /\ lastOp.status = "404"
    /\ lastOp.id \in DOMAIN users /\ lastOp.actor \in DOMAIN users
    /\ users[lastOp.actor].role = COUNTRY_ADMIN
    /\ users[lastOp.id].country # users[lastOp.actor].country
    /\ \E pk \in DOMAIN projects : projects[pk].country # users[lastOp.actor].country

\* C10: the audit log is append-only: a step leaves every entry written
\* before it as it was, actor reference included, and removes none.
C10_AppendOnly ==
    [][/\ Len(auditLog') >= Len(auditLog)
       /\ SubSeq(auditLog', 1, Len(auditLog)) = auditLog]_vars

\* ------------------------------------------------------------------ audit queries (projects/views.py)

MaxClock == 2

\* The clock AuditLog.timestamp is read from; two inserts made within one
\* reading of it carry the same timestamp.
Tick ==
    /\ now < MaxClock
    /\ now' = now + 1
    /\ UNCHANGED <<users, projects, auditLog, originalState, nextProjectId, nextUserId,
                   lastOp, inflight>>

\* AuditLogViewSet.get_queryset for an authenticated user: the ids (positions
\* in insertion order) of the rows selected.
AuditQuerysetOf(us, db, log, actor) ==
    IF is_super_admin(us[actor])
    THEN DOMAIN log
    ELSE LET project_ids == {p \in DOMAIN db : db[p].country = us[actor].country}
         IN {i \in DOMAIN log :
                log[i].model_name = "Project" /\ log[i].object_id \in project_ids}

\* Meta.ordering = ["-timestamp"]: the sequences ORDER BY timestamp DESC may
\* return for the rows `ids`; rows with equal timestamps come in whatever
\* order the database produces.
OrderedByTimestampDesc(log, ids) ==
    {o \in [1..Cardinality(ids) -> ids] :
        /\ \A i, j \in DOMAIN o : i # j => o[i] # o[j]
        /\ \A i, j \in DOMAIN o : i < j => log[o[i]].timestamp >= log[o[j]].timestamp}

\* queryset[:20]
RecentLimit == 20

FirstN(o, n) == IF Len(o) <= n THEN o ELSE SubSeq(o, 1, n)

\* GET /audit-logs/
ApiAuditList(actor) ==
    /\ actor \in DOMAIN users
    /\ \E o \in OrderedByTimestampDesc(auditLog, AuditQuerysetOf(users, projects, auditLog, actor)) :
          lastOp' = Op("audit_list", actor, 0, "200", o)
    /\ UNCHANGED <<users, projects, auditLog, originalState, nextProjectId, nextUserId,
                   now, inflight>>

\* GET /audit-logs/recent/
ApiAuditRecent(actor) ==
    /\ actor \in DOMAIN users
    /\ \E o \in OrderedByTimestampDesc(auditLog, AuditQuerysetOf(users, projects, auditLog, actor)) :
          lastOp' = Op("audit_recent", actor, 0, "200", FirstN(o, RecentLimit))
    /\ UNCHANGED <<users, projects, auditLog, originalState, nextProjectId, nextUserId,
                   now, inflight>>

AuditQueries ==
    \/ \E a \in DOMAIN users : ApiAuditList(a)
    \/ \E a \in DOMAIN users : ApiAuditRecent(a)

\* The audit trail as it is read back: projects are created through the ORM
\* and changed through the API while the clock runs, and every role queries
\* the log.
NextAudit == Populate \/ ProjectDetailWrites \/ Tick \/ AuditQueries

SpecAudit == Init /\ [][NextAudit]_vars

AuditQuery(op) == op.op \in {"audit_list", "audit_recent"}

\* C11: a list or recent query returns the entries newest first, and of two
\* entries with equal timestamps the one inserted later comes first.
C11_NewestFirst ==
    AuditQuery(lastOp) =>
        \A i, j \in DOMAIN lastOp.result :
            i < j =>
                LET a == lastOp.result[i]
                    b == lastOp.result[j]
                IN \/ auditLog[a].timestamp > auditLog[b].timestamp
                   \/ auditLog[a].timestamp = auditLog[b].timestamp /\ a > b

\* ------------------------------------------------------------------ requests step by step
\* PATCH and DELETE /projects/{pk}/ as the statements Django runs one after
\* another, with no transaction and no row lock around them
\* (Model.save_base: pre_save.send, the UPDATE or INSERT, post_save.send), so
\* that the steps of two worker threads interleave.

InFlight == Cardinality({w \in Workers : inflight[w] # Idle})

\* UpdateModelMixin.update up to instance.save(): get_object on the filtered
\* queryset, is_valid, ModelSerializer.update's setattr on the loaded instance.
BeginUpdate(w, actor, pk, data) ==
    /\ inflight[w] = Idle
    /\ actor \in DOMAIN users
    /\ Len(auditLog) < MaxLog
    /\ LET status == ProjectDetailStatus(users, projects, actor, "update", pk, data)
       IN IF status = "200"
          THEN /\ inflight' = [inflight EXCEPT ![w] =
                                 [pc |-> "loaded", verb |-> "update", actor |-> actor,
                                  pk |-> pk, inst |-> Updated(projects[pk], data)]]
               /\ UNCHANGED lastOp
          ELSE /\ lastOp' = Op("project_update", actor, pk, status, {})
               /\ UNCHANGED inflight
    /\ UNCHANGED <<users, projects, auditLog, originalState, nextProjectId, nextUserId, now>>

\* pre_save.send: store_original_state reads the row as stored now.
PreSave(w) ==
    /\ inflight[w].pc = "loaded"
    /\ originalState' = store_original_state(originalState, projects, inflight[w].pk)
    /\ inflight' = [inflight EXCEPT ![w].pc = "presaved"]
    /\ UNCHANGED <<users, projects, auditLog, nextProjectId, nextUserId, lastOp, now>>

\* Model._save_table: UPDATE ... WHERE id = pk, and when no row matched,
\* INSERT with that pk; `created` is what post_save will be told.  `before`
\* notes the tracked values the write replaced.
WriteRow(w) ==
    /\ inflight[w].pc = "presaved"
    /\ LET r == inflight[w]
           stored == r.pk \in DOMAIN projects
       IN /\ projects' = Put(projects, r.pk, r.inst)
          /\ inflight' = [inflight EXCEPT ![w] =
                            [pc |-> "written", verb |-> r.verb, actor |-> r.actor,
                             pk |-> r.pk, inst |-> r.inst, created |-> ~stored,
                             before |-> IF stored THEN Snapshot(projects[r.pk])
                                        ELSE EmptyMap]]
    /\ UNCHANGED <<users, auditLog, originalState, nextProjectId, nextUserId, lastOp, now>>

\* post_save.send: log_project_create_update, then the 200 response.
PostSave(w) ==
    /\ inflight[w].pc = "written"
    /\ LET r == inflight[w]
           res == log_project_create_update(auditLog, originalState, users, r.inst,
                                            r.pk, r.created, r.actor)
       IN /\ auditLog' = res.log
          /\ originalState' = res.os
          /\ lastOp' = Op("project_update", r.actor, r.pk, "200", {})
    /\ inflight' = [inflight EXCEPT ![w] = Idle]
    /\ UNCHANGED <<users, projects, nextProjectId, nextUserId, now>>

\* DestroyModelMixin.destroy up to instance.delete(): get_object, and
\* perform_destroy's instance._current_user = request.user.
BeginDestroy(w, actor, pk) ==
    /\ inflight[w] = Idle
    /\ actor \in DOMAIN users
    /\ Len(auditLog) < MaxLog
    /\ LET status == ProjectDetailStatus(users, projects, actor, "destroy", pk, NoData)
       IN IF status = "204"
          THEN /\ inflight' = [inflight EXCEPT ![w] =
                                 [pc |-> "deleting", verb |-> "destroy", actor |-> actor,
                                  pk |-> pk, inst |-> projects[pk]]]
               /\ UNCHANGED lastOp
          ELSE /\ lastOp' = Op("project_destroy", actor, pk, status, {})
               /\ UNCHANGED inflight
    /\ UNCHANGED <<users, projects, auditLog, originalState, nextProjectId, nextUserId, now>>

\* instance.delete(): Collector.delete runs DELETE ... WHERE id IN (pk) and
\* sends post_delete for the instance in memory, whether or not a row was
\* still there to remove; then the 204 response.
FinishDestroy(w) ==
    /\ inflight[w].pc = "deleting"
    /\ LET r == inflight[w]
       IN /\ projects' = Drop(projects, r.pk)
          /\ auditLog' = log_project_delete(auditLog, r.inst, r.pk, r.actor)
          /\ lastOp' = Op("project_destroy", r.actor, r.pk, "204", {})
    /\ inflight' = [inflight EXCEPT ![w] = Idle]
    /\ UNCHANGED <<users, originalState, nextProjectId, nextUserId, now>>

\* Bodies of the overlapping updates: one field each, so that two requests
\* change different fields of the same row.
RaceData == {[NoData EXCEPT !.title = "t2"], [NoData EXCEPT !.status = "active"]}

RaceActors == {1, 2}

Steps ==
    \/ \E w \in Workers, a \in RaceActors, pk \in ProjectIds, data \in RaceData :
          BeginUpdate(w, a, pk, data)
    \/ \E w \in Workers : PreSave(w)
    \/ \E w \in Workers : WriteRow(w)
    \/ \E w \in Workers : PostSave(w)
    \/ \E w \in Workers, a \in RaceActors, pk \in ProjectIds : BeginDestroy(w, a, pk)
    \/ \E w \in Workers : FinishDestroy(w)

\* Two worker threads serving update and delete requests on the same rows.
NextRace == Populate \/ Steps

SpecRace == Init /\ [][NextRace]_vars

\* The positions in the log of the entries of one kind written for project pk.
EntriesOf(pk, action) ==
    {i \in DOMAIN auditLog : auditLog[i].object_id = pk /\ auditLog[i].action_type = action}

\* C12: for every project id the log holds at most one Create and at most one
\* Delete entry, the Create entry precedes every Update and Delete entry, every
\* Update entry precedes the Delete entry, and no entry for the id follows its
\* Delete entry.
C12_CausalOrder ==
    \A pk \in ProjectIds :
        LET creates == EntriesOf(pk, "create")
            updates == EntriesOf(pk, "update")
            deletes == EntriesOf(pk, "delete")
        IN /\ Cardinality(creates) <= 1
           /\ Cardinality(deletes) <= 1
           /\ \A c \in creates : \A x \in updates \cup deletes : c < x
           /\ \A u \in updates : \A d \in deletes : u < d
           /\ \A d \in deletes : \A x \in creates \cup updates \cup deletes : x <= d

\* The step is worker w's post_save writing an Update entry.
WroteUpdateEntry(w) ==
    /\ inflight[w].pc = "written" /\ ~inflight[w].created
    /\ inflight'[w] = Idle
    /\ Len(auditLog') = Len(auditLog) + 1

\* C20: under any interleaving of two updates of one project, each Update
\* entry lists only fields its update changed, and the old value of each is
\* the value that was stored immediately before that update's write, never a
\* missing one.
C20_BeforeStateOfWrite ==
    [][\A w \in Workers :
          WroteUpdateEntry(w) =>
              LET changes == Last(auditLog').changes
                  before == inflight[w].before
                  inst == inflight[w].inst
              IN \A f \in DOMAIN changes :
                    /\ changes[f].old # NoneVal
                    /\ changes[f].old = before[f]
                    /\ before[f] # inst[f]]_vars

\* ------------------------------------------------------------------ failing audit writes

\* ORM-level saves and deletes whose caller attached an identity the audit
\* insert cannot store.
FaultOps ==
    \/ \E cur \in {NoUser, UnsavedUser} : ModelCreate("t1", "d1", "draft", "USA", 3, cur)
    \/ \E pk \in ProjectIds, t \in Titles, cur \in {NoUser, UnsavedUser} :
          ModelSave(pk, t, "USA", cur)
    \/ \E pk \in ProjectIds, cur \in {NoUser, UnsavedUser} : ModelDelete(pk, cur)

NextFault == FaultOps

SpecFault == Init /\ [][NextFault]_vars

\* The caller of the step's save or delete got the audit insert's exception.
AuditWriteFailed(op) ==
    op.op \in {"model_create", "model_save", "model_delete"} /\ op.status = "error"

\* C13: when writing the audit entry fails during a create, update or delete,
\* the mutation is not persisted: the stored projects are what they were
\* before the call.
C13_MutationAuditAtomic ==
    [][AuditWriteFailed(lastOp') => projects' = projects]_vars

\* ------------------------------------------------------------------ user management and the checks without an identity

\* request.user of a request without credentials.
AnonymousUser == -2

\* The identities a check can be handed that are not an authenticated user:
\* None and AnonymousUser.
NoIdentity == {NoUser, AnonymousUser}

\* ProjectViewSet.get_queryset as written: the print of lines 20-22 evaluates
\* user.is_authenticated and user.is_super_admin() before the test of line 23;
\* None has neither attribute and AnonymousUser has no is_super_admin.
ProjectGetQueryset(identity) ==
    IF identity = NoUser \/ identity = AnonymousUser
    THEN [status |-> "raised", result |-> {}]
    ELSE [status |-> "returned", result |-> ProjectQueryset(identity)]

\* UserViewSet.get_queryset
UserGetQueryset(identity) ==
    IF identity = NoUser \/ identity \notin DOMAIN users
    THEN [status |-> "returned", result |-> {}]
    ELSE [status |-> "returned", result |-> UserQueryset(identity)]

\* AuditLogViewSet.get_queryset
AuditGetQueryset(identity) ==
    IF identity = NoUser \/ identity \notin DOMAIN users
    THEN [status |-> "returned", result |-> {}]
    ELSE [status |-> "returned",
          result |-> AuditQuerysetOf(users, projects, auditLog, identity)]

\* CanCreateUser.has_permission
CanCreateUserCheck(identity, country) ==
    IF identity = NoUser \/ identity \notin DOMAIN users
    THEN [status |-> "returned", result |-> {"deny"}]
    ELSE [status |-> "returned",
          result |-> IF CanCreateUser_has_permission(users[identity], country)
                     THEN {"allow"} ELSE {"deny"}]

\* CanAlterUser.has_permission (IsCountryAdminOrSuperAdmin): `request.user and
\* ...` gives None or False without an authenticated user.
CanAlterUserCheck(identity) ==
    IF identity = NoUser \/ identity \notin DOMAIN users
    THEN [status |-> "returned", result |-> {"deny"}]
    ELSE [status |-> "returned",
          result |-> IF CanAlterUser_has_permission(users[identity])
                     THEN {"allow"} ELSE {"deny"}]

QuerysetChecks == {"project_get_queryset", "user_get_queryset", "audit_get_queryset"}
PermissionChecks == {"can_create_user", "can_alter_user"}

\* One policy check called with the identity given.
PolicyCheck(check, identity) ==
    /\ LET r == CASE check = "project_get_queryset" -> ProjectGetQueryset(identity)
                  [] check = "user_get_queryset" -> UserGetQueryset(identity)
                  [] check = "audit_get_queryset" -> AuditGetQueryset(identity)
                  [] check = "can_create_user" -> CanCreateUserCheck(identity, "USA")
                  [] check = "can_alter_user" -> CanAlterUserCheck(identity)
       IN lastOp' = Op(check, identity, 0, r.status, r.result)
    /\ UNCHANGED <<users, projects, auditLog, originalState, nextProjectId, nextUserId,
                   now, inflight>>

RoleInputs == Role \cup {Missing}
CountryInputs == Countries \cup {Missing}

UserRequests ==
    \/ \E a \in DOMAIN users, r \in RoleInputs, c \in CountryInputs : ApiUserCreate(a, r, c)
    \/ \E a \in DOMAIN users : ApiUserList(a)
    \/ \E a \in DOMAIN users, u \in UserIds, c \in Countries :
          is_country_member(users[a]) /\ ApiUserUpdate(a, u, c)
    \/ \E a \in DOMAIN users, u \in UserIds :
          is_country_member(users[a]) /\ ApiUserDestroy(a, u)

PolicyChecks ==
    \E check \in QuerysetChecks \cup PermissionChecks, i \in NoIdentity \cup DOMAIN users :
        PolicyCheck(check, i)

\* User management: every role creates and lists users, CountryMembers try
\* to change and delete them, and the checks are called with and without an
\* authenticated identity.
NextUsers == UserRequests \/ PolicyChecks

SpecUsers == Init /\ [][NextUsers]_vars

\* C14: called with None or an unauthenticated identity, every visibility
\* filter returns the empty set and every create/alter permission check
\* returns a deny value; none of them raises.
C14_DenyWithoutIdentity ==
    (lastOp.op \in QuerysetChecks \cup PermissionChecks /\ lastOp.actor \in NoIdentity) =>
        /\ lastOp.status = "returned"
        /\ lastOp.op \in QuerysetChecks => lastOp.result = {}
        /\ lastOp.op \in PermissionChecks => lastOp.result = {"deny"}

\* C15: a CountryAdmin's user-creation request succeeds only with role
\* CountryMember and the admin's own country; with role CountryAdmin or
\* SuperAdmin, or another country, it is rejected and creates no user.  A
\* SuperAdmin's request succeeds for every role and every country and creates
\* the user as requested.
C15_AdminCreatesOwnMembers ==
    [][lastOp'.op = "user_create" =>
          LET creator == users[lastOp'.actor]
              req == lastOp'.result
              created == lastOp'.status = "201"
          IN /\ creator.role = COUNTRY_ADMIN =>
                   /\ created => req.role = COUNTRY_MEMBER /\ req.country = creator.country
                   /\ (req.role \in {COUNTRY_ADMIN, SUPER_ADMIN} \/ req.country # creator.country)
                         => ~created /\ users' = users
             /\ (creator.role = SUPER_ADMIN /\ req.role \in Role /\ req.country \in Countries) =>
                   /\ created
                   /\ DOMAIN users' = DOMAIN users \cup {lastOp'.id}
                   /\ lastOp'.id \notin DOMAIN users
                   /\ users'[lastOp'.id].role = req.role
                   /\ users'[lastOp'.id].country = req.country]_vars

\* A CountryAdmin created a CountryMember of the admin's own country.
C15_Witness ==
    /\ lastOp.op = "user_create" /\ lastOp.status = "201"
    /\ users[lastOp.actor].role = COUNTRY_ADMIN
    /\ lastOp.id \in DOMAIN users
    /\ users[lastOp.id].role = COUNTRY_MEMBER
    /\ users[lastOp.id].country = users[lastOp.actor].country

\* C16: listing users returns all users to a SuperAdmin, the users of the
\* admin's country to a CountryAdmin, and the actor's own record only to a
\* CountryMember.
C16_UserListVisibility ==
    lastOp.op = "user_list" =>
        LET u == users[lastOp.actor]
        IN /\ u.role = SUPER_ADMIN => lastOp.result = DOMAIN users
           /\ u.role = COUNTRY_ADMIN =>
                 lastOp.result = {x \in DOMAIN users : users[x].country = u.country}
           /\ u.role = COUNTRY_MEMBER => lastOp.result = {lastOp.actor}

\* A CountryMember listed the users while another user of the same country
\* was stored, and was shown only the own record.
C16_Witness ==
    /\ lastOp.op = "user_list"
    /\ users[lastOp.actor].role = COUNTRY_MEMBER
    /\ \E x \in DOMAIN users : x # lastOp.actor /\ users[x].country = users[lastOp.actor].country
    /\ lastOp.result = {lastOp.actor}

UserWrites == {"user_create", "user_update", "user_destroy"}

\* C17: every create, update or delete request on users made by a
\* CountryMember is denied and leaves the users as they were, the member's
\* own record and the users of the member's country included.
C17_MemberCannotWriteUsers ==
    [][(lastOp'.op \in UserWrites /\ users[lastOp'.actor].role = COUNTRY_MEMBER) =>
          /\ lastOp'.status = "403"
          /\ users' = users]_vars

\* A CountryMember asked to change the own record and was refused.
C17_Witness ==
    /\ lastOp.op = "user_update" /\ lastOp.status = "403"
    /\ lastOp.id = lastOp.actor
    /\ lastOp.actor \in DOMAIN users
    /\ users[lastOp.actor].role = COUNTRY_MEMBER

\* The request answered by the step is an update or delete of a stored user.
UserDetailWrite(op) == op.op \in {"user_update", "user_destroy"} /\ op.id \in DOMAIN users

Succeeded(op) ==
    (op.op = "user_update" /\ op.status = "200") \/ (op.op = "user_destroy" /\ op.status = "204")

\* C18: a CountryAdmin's update or delete of a user succeeds iff the target's
\* country is the admin's own; for a target of another country the answer is
\* NotFound and the target stays stored and unchanged.  A SuperAdmin's update
\* or delete succeeds for a user of any country.
C18_AdminAltersOwnCountry ==
    [][UserDetailWrite(lastOp') =>
          LET actor == users[lastOp'.actor]
              target == users[lastOp'.id]
          IN /\ actor.role = COUNTRY_ADMIN =>
                   /\ Succeeded(lastOp') <=> target.country = actor.country
                   /\ target.country # actor.country =>
                         /\ lastOp'.status = "404"
                         /\ lastOp'.id \in DOMAIN users'
                         /\ users'[lastOp'.id] = target
             /\ actor.role = SUPER_ADMIN => Succeeded(lastOp')]_vars

\* A CountryAdmin deleted a user of the own country, and the row is gone.
C18_Witness ==
    /\ lastOp.op = "user_destroy" /\ lastOp.status = "204"
    /\ lastOp.actor \in DOMAIN users
    /\ users[lastOp.actor].role = COUNTRY_ADMIN
    /\ lastOp.id \notin DOMAIN users

\* The country of the project an entry refers to, stored or since deleted: the
\* country of its Create snapshot (no update request changes it).
EntityCountry(pk) ==
    LET c == CHOOSE i \in DOMAIN auditLog :
                 auditLog[i].object_id = pk /\ auditLog[i].action_type = "create"
    IN auditLog[c].changes.country

Shown(o) == {o[i] : i \in DOMAIN o}

\* C19: a list or recent query of the audit log shows a SuperAdmin every
\* entry, and shows any other viewer exactly the entries that refer to a project
\* of the viewer's country, the entries of projects deleted since included.
C19_AuditVisibility ==
    AuditQuery(lastOp) =>
        LET viewer == users[lastOp.actor]
        IN IF viewer.role = SUPER_ADMIN
           THEN Shown(lastOp.result) = DOMAIN auditLog
           ELSE Shown(lastOp.result) =
                   {i \in DOMAIN auditLog :
                       EntityCountry(auditLog[i].object_id) = viewer.country}

\* ------------------------------------------------------------------ requests on different projects

\* Worker w serves the requests for project w, so that the requests in
\* progress at one time are on different rows.
DistinctSteps ==
    \/ \E w \in Workers, a \in RaceActors, data \in RaceData : BeginUpdate(w, a, w, data)
    \/ \E w \in Workers : PreSave(w)
    \/ \E w \in Workers : WriteRow(w)
    \/ \E w \in Workers : PostSave(w)
    \/ \E w \in Workers, a \in RaceActors : BeginDestroy(w, a, w)
    \/ \E w \in Workers : FinishDestroy(w)

NextDistinct == Populate \/ DistinctSteps

SpecDistinct == Init /\ [][NextDistinct]_vars

\* The step ends worker w's save.
SaveEnds(w) == inflight[w].pc = "written" /\ inflight'[w] = Idle

\* The step ends worker w's delete.
DeleteEnds(w) == inflight[w].pc = "deleting" /\ inflight'[w] = Idle

\* C21: under every interleaving of the steps of requests on different
\* projects, each request leaves in the log what it leaves when it runs alone:
\* an update writes one entry with its actor, its project id and the diff
\* between the row its write replaced and the row it wrote, or none when they
\* are equal; a delete writes one Delete entry with the snapshot of the row it
\* removed.
C21_DistinctIdsIndependent ==
    [][\A w \in Workers :
          LET r == inflight[w]
          IN /\ SaveEnds(w) =>
                   LET changes == Diff(r.before, r.inst)
                   IN /\ ~r.created
                      /\ auditLog' =
                            IF DOMAIN changes # {}
                            THEN Append(auditLog, Entry(r.actor, "update", r.pk, changes))
                            ELSE auditLog
             /\ DeleteEnds(w) =>
                   /\ r.pk \in DOMAIN projects
                   /\ auditLog' = Append(auditLog, Entry(r.actor, "delete", r.pk,
                                                         DeleteChanges(projects[r.pk])))]_vars

\* An update of one project wrote its entry while an update of the other
\* project was between its pre_save and its post_save.
C21_Witness ==
    /\ Len(auditLog) > 0
    /\ Last(auditLog).action_type = "update"
    /\ \E w \in Workers :
          /\ inflight[w].pc \in {"presaved", "written"}
          /\ inflight[w].pk # Last(auditLog).object_id
          /\ Last(auditLog).object_id \in DOMAIN projects
          /\ inflight[w].pk \in DOMAIN originalState

\* ------------------------------------------------------------------ access decisions as functions

\* One request at a time is in progress on a project while a SuperAdmin adds
\* users, so that decisions are evaluated between the steps of a mutation
\* and for identities that share a role and a country.
PolicySteps ==
    \/ \E pk \in ProjectIds, data \in RaceData : BeginUpdate(1, 1, pk, data)
    \/ PreSave(1)
    \/ WriteRow(1)
    \/ PostSave(1)
    \/ \E pk \in ProjectIds : BeginDestroy(1, 1, pk)
    \/ FinishDestroy(1)

PolicyUsers ==
    \E role \in {COUNTRY_ADMIN, COUNTRY_MEMBER}, c \in Countries : ApiUserCreate(1, role, c)

NextPolicy == Populate \/ PolicySteps \/ PolicyUsers

SpecPolicy == Init /\ [][NextPolicy]_vars

PolicyKinds == {"project_read", "project_write", "user_read", "user_write"}

\* The records a decision of the kind is about.
RecordsOf(us, db, kind) ==
    IF kind \in {"project_read", "project_write"} THEN DOMAIN db ELSE DOMAIN us

RecordCountry(us, db, kind, r) ==
    IF kind \in {"project_read", "project_write"} THEN db[r].country ELSE us[r].country

\* The allow/deny result of the detail route for identity i and record r.
Allowed(us, db, kind, i, r) ==
    CASE kind = "project_read" ->
            ProjectDetailStatus(us, db, i, "retrieve", r, NoData) = "200"
      [] kind = "project_write" ->
            ProjectDetailStatus(us, db, i, "destroy", r, NoData) = "204"
      [] kind = "user_read" -> UserDetailStatus(us, i, "retrieve", r) = "200"
      [] kind = "user_write" -> UserDetailStatus(us, i, "destroy", r) = "204"

SameRoleAndCountries(us1, db1, i1, r1, us2, db2, i2, r2, kind) ==
    /\ us1[i1].role = us2[i2].role
    /\ us1[i1].country = us2[i2].country
    /\ RecordCountry(us1, db1, kind, r1) = RecordCountry(us2, db2, kind, r2)

\* A CountryMember reading its own user record.
MemberReadsSelf(us, kind, i, r) ==
    kind = "user_read" /\ is_country_member(us[i]) /\ i = r

\* The statement as given: an evaluation before a step and an evaluation
\* after it agree whenever the role and the two countries agree.
C22_PureInRoleAndCountry ==
    [][\A kind \in PolicyKinds :
          \A i1 \in DOMAIN users, i2 \in DOMAIN users' :
             \A r1 \in RecordsOf(users, projects, kind),
                r2 \in RecordsOf(users', projects', kind) :
                SameRoleAndCountries(users, projects, i1, r1,
                                     users', projects', i2, r2, kind)
                => (Allowed(users, projects, kind, i1, r1)
                       <=> Allowed(users', projects', kind, i2, r2))]_vars

\* C22: the read and write decisions are a function of the identity's role and
\* country, the record's country and, for a CountryMember reading a user
\* record, whether the record is the member's own: an evaluation before a step
\* and an evaluation after it that agree on these give the same allow/deny
\* result, whatever else differs and whatever mutation is in progress.
C22_PureInRoleCountryAndSelf ==
    [][\A kind \in PolicyKinds :
          \A i1 \in DOMAIN users, i2 \in DOMAIN users' :
             \A r1 \in RecordsOf(users, projects, kind),
                r2 \in RecordsOf(users', projects', kind) :
                /\ SameRoleAndCountries(users, projects, i1, r1,
                                        users', projects', i2, r2, kind)
                /\ MemberReadsSelf(users, kind, i1, r1)
                      <=> MemberReadsSelf(users', kind, i2, r2)
                => (Allowed(users, projects, kind, i1, r1)
                       <=> Allowed(users', projects', kind, i2, r2))]_vars

\* Two CountryMembers of one country exist, a project of that country created
\* by one of them is stored, and an update of a project is between its
\* pre_save and its post_save.
C22_Witness ==
    /\ \E i1, i2 \in DOMAIN users :
          /\ i1 # i2
          /\ is_country_member(users[i1]) /\ is_country_member(users[i2])
          /\ users[i1].country = users[i2].country
          /\ \E p \in DOMAIN projects :
                /\ projects[p].country = users[i1].country
                /\ projects[p].created_by = i1
                /\ ProjectDetailStatus(users, projects, i2, "retrieve", p, NoData) = "200"
    /\ inflight[1].pc \in {"presaved", "written"}

\* ------------------------------------------------------------------ creating a project through the API

\* The step is a POST /projects/ whose body passed validation.
ValidCreateRequest ==
    /\ lastOp' # lastOp
    /\ lastOp'.op = "project_create"
    /\ lastOp'.status # "400"

\* C23: a valid create request of an authenticated identity persists one
\* project whose creator is the requester and whose country is the requester's
\* country, and appends one Create entry for it.
C23_ApiCreateCommits ==
    [][ValidCreateRequest =>
          LET pk == nextProjectId
              actor == lastOp'.actor
          IN /\ lastOp'.status = "201"
             /\ DOMAIN projects' = DOMAIN projects \cup {pk}
             /\ projects'[pk].created_by = actor
             /\ projects'[pk].country = users[actor].country
             /\ Len(auditLog') = Len(auditLog) + 1
             /\ Last(auditLog').action_type = "create"
             /\ Last(auditLog').object_id = pk]_vars

\* ------------------------------------------------------------------ creators and their deletion

\* Any stored user creates projects and saves them through the ORM, and the
\* SuperAdmin or the CountryAdmin deletes users through the API.
CreatorOps ==
    \/ \E cb \in DOMAIN users : \E cur \in {NoUser, cb} :
          ModelCreate("t1", "d1", "draft", users[cb].country, cb, cur)
    \/ \E pk \in ProjectIds, cur \in DOMAIN users : ModelSave(pk, "t2", "USA", cur)
    \/ \E a \in {1, 2} \cap DOMAIN users, u \in UserIds : ApiUserDestroy(a, u)

NextCreator == CreatorOps

SpecCreator == Init /\ [][NextCreator]_vars

\* The step is a create through the ORM that wrote its entry.
CreateStep == lastOp' # lastOp /\ lastOp'.op = "model_create" /\ lastOp'.status = "ok"

\* C24: the Create entry holds the title, description, status and country of
\* the row as persisted and a creator value that is not null when the row has
\* a creator; and no later step changes the changes of a Create entry, the
\* deletion of the creator included.
C24_CreatorDisplayValue ==
    [][/\ CreateStep =>
             LET row == projects'[lastOp'.id]
                 e == Last(auditLog')
             IN /\ e.action_type = "create" /\ e.object_id = lastOp'.id
                /\ \A f \in {"title", "description", "status", "country"} :
                      e.changes[f] = row[f]
                /\ row.created_by # NoUser => e.changes.created_by # NoneVal
       /\ \A i \in 1..Len(auditLog) :
             auditLog[i].action_type = "create"
             => /\ i <= Len(auditLog')
                /\ auditLog'[i].changes = auditLog[i].changes]_vars

\* The step is a DELETE /users/{id}/ that removed the row.
UserDeleted ==
    /\ lastOp'.op = "user_destroy"
    /\ lastOp'.status = "204"
    /\ lastOp'.id \in DOMAIN users

\* C25: a user deletion removes no project and no audit entry; the projects
\* the user created stay with created_by null and every other field as it was,
\* every other project is untouched, every entry keeps its action, project id,
\* changes and timestamp, and the log gets no new entry.
C25_UserDeleteKeepsHistory ==
    [][UserDeleted =>
          LET uid == lastOp'.id
          IN /\ uid \notin DOMAIN users'
             /\ DOMAIN projects' = DOMAIN projects
             /\ \A p \in DOMAIN projects :
                   projects'[p] = IF projects[p].created_by = uid
                                  THEN [projects[p] EXCEPT !.created_by = NoUser]
                                  ELSE projects[p]
             /\ Len(auditLog') = Len(auditLog)
             /\ \A i \in 1..Len(auditLog) :
                   /\ auditLog'[i].action_type = auditLog[i].action_type
                   /\ auditLog'[i].object_id = auditLog[i].object_id
                   /\ auditLog'[i].changes = auditLog[i].changes
                   /\ auditLog'[i].timestamp = auditLog[i].timestamp]_vars

\* A user who created a project and authored an Update entry was deleted:
\* the project is stored without a creator and the log still has the entries.
C25_Witness ==
    /\ lastOp.op = "user_destroy" /\ lastOp.status = "204"
    /\ \E p \in DOMAIN projects :
          /\ projects[p].created_by = NoUser
          /\ \E i, j \in 1..Len(auditLog) :
                /\ auditLog[i].action_type = "create" /\ auditLog[i].object_id = p
                /\ auditLog[i].changes.created_by # NoneVal
                /\ auditLog[j].action_type = "update" /\ auditLog[j].object_id = p
                /\ auditLog[j].user = NoUser

\* ------------------------------------------------------------------ who may write a project

\* The step is a PATCH or DELETE on a stored project whose body, if any,
\* passes validation.
ProjectWriteRequest ==
    /\ lastOp' # lastOp
    /\ lastOp'.op \in {"project_update", "project_destroy"}
    /\ lastOp'.id \in DOMAIN projects
    /\ lastOp'.status # "400"

\* C26: an update or delete of a stored project succeeds exactly when the
\* actor is a SuperAdmin or has the country the stored row has, whoever
\* created the row and whatever country the request carries; a delete that
\* succeeds removes the row, and a request that does not succeed leaves the
\* table as it was.
C26_ProjectWriteIffSameCountry ==
    [][ProjectWriteRequest =>
          LET u == users[lastOp'.actor]
              pk == lastOp'.id
              ok == lastOp'.status \in {"200", "204"}
          IN /\ ok <=> (is_super_admin(u) \/ u.country = projects[pk].country)
             /\ (ok /\ lastOp'.op = "project_destroy") => pk \notin DOMAIN projects'
             /\ (ok /\ lastOp'.op = "project_update") => pk \in DOMAIN projects'
             /\ ~ok => projects' = projects]_vars

\* A CountryMember updated a project of its country that it did not create,
\* with a request that named a country.
C26_Witness ==
    /\ lastOp.op = "project_update" /\ lastOp.status = "200"
    /\ lastOp.actor \in DOMAIN users
    /\ is_country_member(users[lastOp.actor])
    /\ lastOp.id \in DOMAIN projects
    /\ projects[lastOp.id].created_by # lastOp.actor
    /\ projects[lastOp.id].title = "t2"
    /\ lastOp.result # {}

\* ------------------------------------------------------------------ registration and tenant boundaries

\* RegisterSerializer.create taking the role from the request body.
RegisterRole_supplied(role) == IF role = Missing THEN COUNTRY_MEMBER ELSE role

\* RegisterSerializer.create: validated_data["role"] = COUNTRY_MEMBER; role is
\* no field of the serializer, so a role in the body is dropped.
RegisterRole(role) == COUNTRY_MEMBER

\* POST /register/ (AllowAny): country is required, the caller has no identity.
ApiRegister(role, country) ==
    /\ nextUserId <= MaxUsers
    /\ IF country = Missing
       THEN /\ lastOp' = Op("register", NoUser, 0, "400", [role |-> role, country |-> country])
            /\ UNCHANGED <<users, nextUserId>>
       ELSE /\ users' = Put(users, nextUserId,
                            [role |-> RegisterRole(role), country |-> country,
                             username |-> "reg"])
            /\ nextUserId' = nextUserId + 1
            /\ lastOp' = Op("register", NoUser, nextUserId, "201",
                            [role |-> role, country |-> country])
    /\ UNCHANGED <<projects, auditLog, originalState, nextProjectId, now, inflight>>

\* Everything an actor below SuperAdmin can send to the user endpoints.
TenantOps ==
    \/ \E r \in RoleInputs, c \in CountryInputs : ApiRegister(r, c)
    \/ \E a \in DOMAIN users, r \in RoleInputs, c \in CountryInputs :
          ~is_super_admin(users[a]) /\ ApiUserCreate(a, r, c)
    \/ \E a \in DOMAIN users, u \in UserIds, c \in Countries :
          ~is_super_admin(users[a]) /\ ApiUserUpdate(a, u, c)
    \/ \E a \in DOMAIN users, u \in UserIds :
          ~is_super_admin(users[a]) /\ ApiUserDestroy(a, u)

NextTenant == TenantOps

SpecTenant == Init /\ [][NextTenant]_vars

Elevated == {SUPER_ADMIN, COUNTRY_ADMIN}

\* C27: no request of an actor below SuperAdmin leaves a user with the role
\* SuperAdmin or CountryAdmin that did not have that role before the request;
\* a registration stores the role CountryMember whatever role its body names.
C27_NoRoleEscalation ==
    [][/\ \A u \in DOMAIN users' :
             users'[u].role \in Elevated
             => (u \in DOMAIN users /\ users[u].role = users'[u].role)
       /\ (lastOp' # lastOp /\ lastOp'.op = "register" /\ lastOp'.status = "201")
             => users'[lastOp'.id].role = COUNTRY_MEMBER]_vars

\* A registration whose body named the role SUPER_ADMIN stored a CountryMember.
C27_Witness ==
    /\ lastOp.op = "register" /\ lastOp.status = "201"
    /\ lastOp.result.role = SUPER_ADMIN
    /\ lastOp.id \in DOMAIN users
    /\ users[lastOp.id].role = COUNTRY_MEMBER

\* The user rows of country D, with their fields.
UsersOf(us, D) == [u \in {v \in DOMAIN us : us[v].country = D} |-> us[u]]

\* The step is a create, update or delete request on users sent by a
\* CountryAdmin.
AdminUserRequest ==
    /\ lastOp' # lastOp
    /\ lastOp'.op \in {"user_create", "user_update", "user_destroy"}
    /\ lastOp'.actor \in DOMAIN users
    /\ is_country_admin(users[lastOp'.actor])

\* C28: a request of a CountryAdmin of country C leaves the user rows of every
\* other country D as they were: none added, none removed, no field changed.
C28_UserTenantIsolation ==
    [][AdminUserRequest =>
          \A D \in Countries \ {users[lastOp'.actor].country} :
             UsersOf(users', D) = UsersOf(users, D)]_vars

\* ------------------------------------------------------------------ lifetime of the before-state

\* Worker w is between the pre_save and the post_save of a save of project pk.
SaveInProgress(w, pk) ==
    inflight[w].pc \in {"presaved", "written"} /\ inflight[w].pk = pk

\* C29: _original_state has a key for a project only while a save of that
\* project is between its pre_save and its post_save; with no save in
\* progress it is empty, also after a save that raised between the two and
\* after the project was deleted.
C29_BeforeStateOnlyDuringSave ==
    \A pk \in DOMAIN originalState : \E w \in Workers : SaveInProgress(w, pk)

\* ------------------------------------------------------------------ replaying the audit trail

\* The state of a project before any entry about it.
NotCreated == [f \in TrackedFields |-> Missing]

\* The tracked fields of project pk as the first n entries of the log give
\* them: the Create entry's snapshot, then the new values of each Update entry.
RECURSIVE Replay(_, _, _)
Replay(log, pk, n) ==
    IF n = 0 THEN NotCreated
    ELSE LET prev == Replay(log, pk, n - 1)
             e == log[n]
         IN IF e.object_id # pk THEN prev
            ELSE IF e.action_type = "create"
            THEN [f \in TrackedFields |-> e.changes[f]]
            ELSE IF e.action_type = "update"
            THEN [f \in TrackedFields |->
                    IF f \in DOMAIN e.changes THEN e.changes[f].new ELSE prev[f]]
            ELSE prev

\* C30: for every stored project, replaying its Create entry and then its
\* Update entries in log order gives the stored title, description, status and
\* country, and every old value of an Update entry is the value the replay of
\* the entries before it gives for that field.
C30_TrailReplaysToState ==
    \A pk \in DOMAIN projects :
        /\ Replay(auditLog, pk, Len(auditLog)) = Snapshot(projects[pk])
        /\ \A n \in 1..Len(auditLog) :
              (auditLog[n].object_id = pk /\ auditLog[n].action_type = "update")
              => \A f \in DOMAIN auditLog[n].changes :
                    auditLog[n].changes[f].old = Replay(auditLog, pk, n - 1)[f]

\* A stored project has a Create entry and two Update entries, the second one
\* changing a field the first one changed as well.
C30_Witness ==
    \E pk \in DOMAIN projects :
       \E i, j \in EntriesOf(pk, "update") :
          /\ i < j
          /\ EntriesOf(pk, "create") # {}
          /\ \E f \in DOMAIN auditLog[i].changes \cap DOMAIN auditLog[j].changes :
                auditLog[j].changes[f].old = auditLog[i].changes[f].new

====
